---- MODULE Spec2Model ----
(***************************************************************************)
(* Model of src/src/main.rs: the shard-and-aggregate engine.               *)
(*                                                                         *)
(* A file is a sequence of bytes.  A byte is one of                        *)
(*   "\n"  the record separator (b'\n'),                                   *)
(*   " "   ASCII whitespace, removed by str::trim,                         *)
(*   "X"   a byte that is not valid UTF-8,                                 *)
(*   "{" "}"  the delimiters of a JSON object,                             *)
(*   a member byte, standing for one complete "key": value member of a     *)
(*   JSON object (see Member).                                             *)
(* Metric values (f64 in the source) are integers.                         *)
(***************************************************************************)
EXTENDS Integers, Sequences, FiniteSets, TLC

VARIABLES
    mmap,            \* the bytes of the input file
    size,            \* world.size(): the number of workers W
    max_buffer_size, \* the segment cap B, in bytes
    pc,              \* rank -> position of that worker in main
    bounds,          \* rank -> (local_start, local_end) of setup_mpi_file_boundaries
    local,           \* rank -> result of process_chunk_memory_mapped
    all_hour_dicts,  \* rank 0: the gathered BucketTables, in arrival order
    all_user_dicts,  \* rank 0: the gathered EntityTables, in arrival order
    total_lines,     \* rank 0: the accumulated record count
    global_hour,     \* rank 0: merge_hour_dicts(all_hour_dicts)
    global_user,     \* rank 0: merge_user_dicts(all_user_dicts)
    chan,            \* rank -> the messages it has sent to rank 0, not yet received
    from_rank,       \* rank 0: the rank its receive loop waits for
    received,        \* rank 0: what each receive took, <<slot, kind, source>>
    arg,             \* the input of the function exercised on its own
    out              \* what that function has returned

vars == <<mmap, size, max_buffer_size, pc, bounds, local,
          all_hour_dicts, all_user_dicts, total_lines, global_hour,
          global_user, chan, from_rank, received, arg, out>>

\* ------------------------------------------------------------------ bounds
MaxRecs == 3
MaxW == 2
MaxB == 3
MaxF == 9
MaxRanks == 4
MaxTables == 2
MaxK == 3
MaxFeed == 3
MaxProcs == 3
MaxScanRecs == 2

\* the default cap (--buffer-size 100): larger than every file of the model
DefaultCap == 100

\* ---------------------------------------------------------------- helpers
\* Option<T>: None is the empty set, Some(v) the singleton {v}
None == {}

Some(v) == {v}

Unwrap(o) == CHOOSE v \in o : TRUE

Min2(a, b) == IF a <= b THEN a ELSE b

\* HashMap::new()
EmptyMap == [x \in {} |-> 0]

\* map with key k bound to v (HashMap::insert / entry)
Put(m, k, v) == [x \in DOMAIN m \cup {k} |-> IF x = k THEN v ELSE m[x]]

RECURSIVE SumSeq(_)
SumSeq(s) == IF s = <<>> THEN 0 ELSE s[1] + SumSeq(Tail(s))

\* mmap[from..to]: the bytes at 0-based offsets from .. to-1
Slice(m, from, to) == SubSeq(m, from + 1, to)

\* iter().position(|&b| b == b'\n') on mmap[from..to]: the 0-based offset,
\* relative to from, of the first newline; None when there is none
Position(m, from, to) ==
    LET hits == {i \in from .. (to - 1) : m[i + 1] = "\n"}
    IN  IF hits = {} THEN None
        ELSE Some((CHOOSE i \in hits : \A j \in hits : i <= j) - from)

\* ------------------------------------------------------------ the decoder
IsSpace(b) == b = " " \/ b = "\n"

\* str::trim
RECURSIVE TrimStart(_)
TrimStart(s) ==
    IF s # <<>> /\ IsSpace(s[1]) THEN TrimStart(Tail(s)) ELSE s

RECURSIVE TrimEnd(_)
TrimEnd(s) ==
    IF s # <<>> /\ IsSpace(s[Len(s)])
    THEN TrimEnd(SubSeq(s, 1, Len(s) - 1)) ELSE s

Trim(s) == TrimEnd(TrimStart(s))

\* std::str::from_utf8(..).is_ok()
ValidUtf8(s) == \A i \in 1 .. Len(s) : s[i] # "X"

preprocess_data(data) ==
    LET trimmed == Trim(data)
    IN  IF trimmed = <<>> THEN None ELSE Some(trimmed)

\* A created_at string: an RFC 3339 timestamp of the given hour and minute,
\* or a string that is no timestamp.
Time(h, mi) == [rfc3339 |-> TRUE, hour |-> h, minute |-> mi]

NotADate == [rfc3339 |-> FALSE, hour |-> "", minute |-> 0]

\* The JSON member a member byte stands for.
Member ==
    [ a |-> [key |-> "created_at", val |-> Time("10", 15)],
      c |-> [key |-> "created_at", val |-> Time("10", 45)],
      b |-> [key |-> "created_at", val |-> Time("11", 0)],
      q |-> [key |-> "created_at", val |-> NotADate],
      u |-> [key |-> "account", val |-> [id |-> "1", username |-> Some("alice")]],
      v |-> [key |-> "account", val |-> [id |-> "1", username |-> Some("al")]],
      w |-> [key |-> "account", val |-> [id |-> "2", username |-> Some("bob")]],
      k |-> [key |-> "account", val |-> [id |-> "1", username |-> None]],
      p |-> [key |-> "sentiment", val |-> 1],
      P |-> [key |-> "sentiment", val |-> 2],
      m |-> [key |-> "sentiment", val |-> -1] ]

MemberBytes == DOMAIN Member

\* serde_json::from_str::<Value>: the text is a JSON object iff it is "{",
\* members (whitespace allowed between them), "}".
IsJsonObject(s) ==
    /\ Len(s) >= 2
    /\ s[1] = "{"
    /\ s[Len(s)] = "}"
    /\ \A i \in 2 .. (Len(s) - 1) : s[i] \in MemberBytes \/ s[i] = " "

\* data.get(key): the value of the last member with that key, or None
RECURSIVE JsonGet(_, _)
JsonGet(s, key) ==
    IF s = <<>> THEN None
    ELSE LET last == s[Len(s)]
         IN  IF last \in MemberBytes /\ Member[last].key = key
             THEN Some(Member[last].val)
             ELSE JsonGet(SubSeq(s, 1, Len(s) - 1), key)

\* MastodonData::from_json_str
from_json_str(json_str) ==
    IF ~IsJsonObject(json_str) THEN [ok |-> FALSE]
    ELSE LET account == JsonGet(json_str, "account")
         IN  [ ok |-> TRUE,
               created_at |-> JsonGet(json_str, "created_at"),
               user_id |-> IF account = None THEN None ELSE Some(Unwrap(account).id),
               username |-> IF account = None THEN None ELSE Unwrap(account).username,
               sentiment |-> JsonGet(json_str, "sentiment") ]

\* DateTime::parse_from_rfc3339(..).is_ok()
IsRfc3339(created_at) == created_at.rfc3339

\* created_datetime.format("%Y-%m-%d %H"): the timestamp cut to its hour
HourKey(created_at) == created_at.hour

\* *map.entry(key).or_insert(0.0) += value
AddToHour(hour, key, value) ==
    Put(hour, key, (IF key \in DOMAIN hour THEN hour[key] ELSE 0) + value)

\* an upsert that overwrites the label each time
AddToUser_LatestLabel(user, uid, username, value) ==
    Put(user, uid, [name |-> username,
                    sent |-> (IF uid \in DOMAIN user THEN user[uid].sent ELSE 0) + value])

\* let entry = map.entry(uid).or_insert((username, 0.0)); entry.1 += value
AddToUser(user, uid, username, value) ==
    IF uid \in DOMAIN user
    THEN Put(user, uid, [name |-> user[uid].name, sent |-> user[uid].sent + value])
    ELSE Put(user, uid, [name |-> username, sent |-> value])

\* processing_data with a record that has no entity fields skipped whole
processing_data_NeedsEntity(line, hour, user) ==
    LET d == from_json_str(line)
    IN  IF ~d.ok THEN [hour |-> hour, user |-> user]
        ELSE IF \/ d.created_at = None \/ d.sentiment = None
                \/ d.user_id = None \/ d.username = None
        THEN [hour |-> hour, user |-> user]
        ELSE [ hour |-> IF IsRfc3339(Unwrap(d.created_at))
                        THEN AddToHour(hour, HourKey(Unwrap(d.created_at)),
                                       Unwrap(d.sentiment))
                        ELSE hour,
               user |-> AddToUser(user, Unwrap(d.user_id), Unwrap(d.username),
                                  Unwrap(d.sentiment)) ]

\* processing_data with both tables emptied when the decode fails
processing_data_ErrClears(line, hour, user) ==
    LET d == from_json_str(line)
    IN  IF ~d.ok THEN [hour |-> EmptyMap, user |-> EmptyMap]
        ELSE IF d.created_at = None \/ d.sentiment = None
        THEN [hour |-> hour, user |-> user]
        ELSE [ hour |-> IF IsRfc3339(Unwrap(d.created_at))
                        THEN AddToHour(hour, HourKey(Unwrap(d.created_at)),
                                       Unwrap(d.sentiment))
                        ELSE hour,
               user |-> IF d.user_id # None /\ d.username # None
                        THEN AddToUser(user, Unwrap(d.user_id), Unwrap(d.username),
                                       Unwrap(d.sentiment))
                        ELSE user ]

\* processing_data: the two tables after the line has been processed
processing_data(line, hour, user) ==
    LET d == from_json_str(line)
    IN  IF ~d.ok THEN [hour |-> hour, user |-> user]
        ELSE IF d.created_at = None \/ d.sentiment = None
        THEN [hour |-> hour, user |-> user]
        ELSE [ hour |-> IF IsRfc3339(Unwrap(d.created_at))
                        THEN AddToHour(hour, HourKey(Unwrap(d.created_at)),
                                       Unwrap(d.sentiment))
                        ELSE hour,
               user |-> IF d.user_id # None /\ d.username # None
                        THEN AddToUser(user, Unwrap(d.user_id), Unwrap(d.username),
                                       Unwrap(d.sentiment))
                        ELSE user ]

\* --------------------------------------------------------- the partitioner
\* setup_mpi_file_boundaries with the last rank's end computed like the others'
setup_mpi_file_boundaries_NoRemainder(file_size, rank, nranks) ==
    LET chunk_size == file_size \div nranks
    IN  [ local_start |-> rank * chunk_size,
          local_end |-> (rank + 1) * chunk_size ]

\* setup_mpi_file_boundaries: (local_start, local_end) of one rank
setup_mpi_file_boundaries(file_size, rank, nranks) ==
    LET chunk_size == file_size \div nranks
    IN  [ local_start |-> rank * chunk_size,
          local_end |-> IF rank = nranks - 1 THEN file_size
                        ELSE (rank + 1) * chunk_size ]

\* ------------------------------------------------------------ the scanner
\* The state of one scan: the walk position, the two tables, the count, and
\* (history) the byte spans <<current_pos, next_newline>> the inner loop cut
\* out of the file, one per pass, in order.
ScanInit(position) ==
    [ current_pos |-> position, hour |-> EmptyMap, user |-> EmptyMap,
      lines_processed |-> 0, walked |-> <<>> ]

\* StartSkip that stops on the newline instead of after it
StartSkip_OnNewline(m, local_start) ==
    IF local_start > 0
    THEN LET pos == Position(m, local_start, Len(m))
         IN  IF pos # None THEN Some(local_start + Unwrap(pos)) ELSE None
    ELSE Some(local_start)

\* lines 413-421: the position after the start skip, None when the scan
\* returns at once
StartSkip(m, local_start) ==
    IF local_start > 0
    THEN LET pos == Position(m, local_start, Len(m))
         IN  IF pos # None THEN Some(local_start + Unwrap(pos) + 1) ELSE None
    ELSE Some(local_start)

\* lines 429-438: adjusted_segment_end of the segment that starts at
\* segment_start
AdjustedSegmentEnd(m, segment_start, local_end, cap) ==
    LET segment_end == Min2(Min2(segment_start + cap, local_end), Len(m))
    IN  IF segment_end < local_end /\ segment_end < Len(m)
        THEN LET pos == Position(m, segment_end, Len(m))
             IN  IF pos # None THEN segment_end + Unwrap(pos) + 1
                 ELSE segment_end
        ELSE segment_end

\* lines 442-450: next_newline
NextNewline(m, current_pos, adjusted_segment_end) ==
    LET pos == Position(m, current_pos, adjusted_segment_end)
    IN  IF pos # None THEN current_pos + Unwrap(pos) ELSE adjusted_segment_end

\* LineStep with the count raised only when the decode succeeds
LineStep_CountDecoded(m, st, adjusted_segment_end) ==
    LET next_newline == NextNewline(m, st.current_pos, adjusted_segment_end)
        line == Slice(m, st.current_pos, next_newline)
        pre_line == IF next_newline > st.current_pos /\ ValidUtf8(line)
                    THEN preprocess_data(line) ELSE None
        decoded == pre_line # None /\ from_json_str(Unwrap(pre_line)).ok
        tables == IF pre_line # None
                  THEN processing_data(Unwrap(pre_line), st.hour, st.user)
                  ELSE [hour |-> st.hour, user |-> st.user]
    IN  [ current_pos |-> next_newline + 1,
          hour |-> tables.hour,
          user |-> tables.user,
          lines_processed |-> st.lines_processed + (IF decoded THEN 1 ELSE 0),
          walked |-> Append(st.walked, <<st.current_pos, next_newline>>) ]

\* lines 442-465: one pass of the inner loop's body
LineStep(m, st, adjusted_segment_end) ==
    LET next_newline == NextNewline(m, st.current_pos, adjusted_segment_end)
        line == Slice(m, st.current_pos, next_newline)
        pre_line == IF next_newline > st.current_pos /\ ValidUtf8(line)
                    THEN preprocess_data(line) ELSE None
        tables == IF pre_line # None
                  THEN processing_data(Unwrap(pre_line), st.hour, st.user)
                  ELSE [hour |-> st.hour, user |-> st.user]
    IN  [ current_pos |-> next_newline + 1,
          hour |-> tables.hour,
          user |-> tables.user,
          lines_processed |-> st.lines_processed + (IF pre_line # None THEN 1 ELSE 0),
          walked |-> Append(st.walked, <<st.current_pos, next_newline>>) ]

\* lines 441-469: the inner loop over the lines of one segment
RECURSIVE SegmentLines(_, _, _)
SegmentLines(m, st, adjusted_segment_end) ==
    IF st.current_pos < adjusted_segment_end /\ st.current_pos < Len(m)
    THEN LET nxt == LineStep(m, st, adjusted_segment_end)
         IN  IF nxt.current_pos >= Len(m) THEN nxt
             ELSE SegmentLines(m, nxt, adjusted_segment_end)
    ELSE st

\* lines 427-472: the outer loop over segments; segment_start is current_pos
\* at the top of every pass
RECURSIVE Segments(_, _, _, _)
Segments(m, st, local_end, cap) ==
    IF st.current_pos < local_end /\ st.current_pos < Len(m)
    THEN Segments(m,
                  SegmentLines(m, st,
                      AdjustedSegmentEnd(m, st.current_pos, local_end, cap)),
                  local_end, cap)
    ELSE st

\* process_chunk_memory_mapped
process_chunk_memory_mapped(m, local_start, local_end, cap) ==
    LET position == StartSkip(m, local_start)
    IN  IF position = None THEN ScanInit(local_start)
        ELSE Segments(m, ScanInit(Unwrap(position)), local_end, cap)

\* ------------------------------------------------------------- the reducer
\* MergeHourInto with the value of dict stored instead of added
MergeHourInto_Overwrite(merged, dict) ==
    [ h \in DOMAIN merged \cup DOMAIN dict |->
        IF h \in DOMAIN dict THEN dict[h] ELSE merged[h] ]

\* one pass of merge_hour_dicts' outer loop: dict added into merged
MergeHourInto(merged, dict) ==
    [ h \in DOMAIN merged \cup DOMAIN dict |->
        IF h \in DOMAIN dict
        THEN (IF h \in DOMAIN merged THEN merged[h] ELSE 0) + dict[h]
        ELSE merged[h] ]

RECURSIVE MergeHourFrom(_, _)
MergeHourFrom(merged, dicts_list) ==
    IF dicts_list = <<>> THEN merged
    ELSE MergeHourFrom(MergeHourInto(merged, dicts_list[1]), Tail(dicts_list))

merge_hour_dicts(dicts_list) == MergeHourFrom(EmptyMap, dicts_list)

\* MergeUserInto with a uid already merged left as it is
MergeUserInto_FirstOnly(merged, dict) ==
    [ uid \in DOMAIN merged \cup DOMAIN dict |->
        IF uid \in DOMAIN merged THEN merged[uid]
        ELSE [name |-> dict[uid].name, sent |-> dict[uid].sent] ]

\* one pass of merge_user_dicts' outer loop: or_insert keeps the username
\* already stored for the uid
MergeUserInto(merged, dict) ==
    [ uid \in DOMAIN merged \cup DOMAIN dict |->
        IF uid \in DOMAIN dict
        THEN IF uid \in DOMAIN merged
             THEN [name |-> merged[uid].name,
                   sent |-> merged[uid].sent + dict[uid].sent]
             ELSE [name |-> dict[uid].name, sent |-> dict[uid].sent]
        ELSE merged[uid] ]

RECURSIVE MergeUserFrom(_, _)
MergeUserFrom(merged, dicts_list) ==
    IF dicts_list = <<>> THEN merged
    ELSE MergeUserFrom(MergeUserInto(merged, dicts_list[1]), Tail(dicts_list))

merge_user_dicts(dicts_list) == MergeUserFrom(EmptyMap, dicts_list)

\* ------------------------------------------------------------------ top-K
\* std::collections::BinaryHeap, a max-heap under Ord for SentimentItem and
\* UserSentimentItem (lines 365-369, 387-391: the order of the values).  A
\* heap is the set of its items; items differ in their keys.
\* The items pop() may return: those no other item exceeds.
HeapMax(heap) == {x \in heap : \A y \in heap : y.value <= x.value}

\* Fill with the pop made only when more than n + 1 items are held
RECURSIVE Fill_KeepOneMore(_, _, _)
Fill_KeepOneMore(todo, heap, n) ==
    IF todo = {} THEN {heap}
    ELSE UNION { LET pushed == heap \cup {x}
                 IN  IF Cardinality(pushed) > n + 1
                     THEN UNION {Fill_KeepOneMore(todo \ {x}, pushed \ {y}, n) :
                                    y \in HeapMax(pushed)}
                     ELSE Fill_KeepOneMore(todo \ {x}, pushed, n)
               : x \in todo }

\* lines 519-530 / 546-557: the heaps the for loop can end with, over every
\* iteration order of the map: push the item, pop when more than n are held
RECURSIVE Fill(_, _, _)
Fill(todo, heap, n) ==
    IF todo = {} THEN {heap}
    ELSE UNION { LET pushed == heap \cup {x}
                 IN  IF Cardinality(pushed) > n
                     THEN UNION {Fill(todo \ {x}, pushed \ {y}, n) :
                                    y \in HeapMax(pushed)}
                     ELSE Fill(todo \ {x}, pushed, n)
               : x \in todo }

\* lines 533-536 / 560-563: the items in the order pop() returns them
RECURSIVE Drain(_)
Drain(heap) ==
    IF heap = {} THEN {<<>>}
    ELSE UNION { {<<y>> \o rest : rest \in Drain(heap \ {y})} :
                 y \in HeapMax(heap) }

\* Vec::reverse
Reverse(s) == [i \in 1 .. Len(s) |-> s[Len(s) + 1 - i]]

\* top_n_by_value: the results it can return, each a sequence of
\* <<key, value>>
top_n_by_value(map, n, largest) ==
    LET items == { [key |-> k, value |-> IF largest THEN map[k] ELSE -map[k]] :
                   k \in DOMAIN map }
        result(popped) ==
            [i \in 1 .. Len(popped) |->
                <<popped[i].key,
                  IF largest THEN popped[i].value ELSE -popped[i].value>>]
    IN  UNION { {Reverse(result(popped)) : popped \in Drain(heap)} :
                heap \in Fill(items, {}, n) }

\* top_n_users: the results it can return, each a sequence of
\* <<user_id, <<username, sentiment>>>>
top_n_users(map, n, largest) ==
    LET items == { [key |-> uid, name |-> map[uid].name,
                    value |-> IF largest THEN map[uid].sent ELSE -map[uid].sent] :
                   uid \in DOMAIN map }
        result(popped) ==
            [i \in 1 .. Len(popped) |->
                <<popped[i].key,
                  <<popped[i].name,
                    IF largest THEN popped[i].value ELSE -popped[i].value>>>>]
    IN  UNION { {Reverse(result(popped)) : popped \in Drain(heap)} :
                heap \in Fill(items, {}, n) }

\* ------------------------------------------------------- the input files
\* The lines a file is made of: two well-formed records, a malformed one,
\* an empty line, a blank line, a line that is not UTF-8.
Lines ==
    { <<"{", "a", "u", "p", "}">>,
      <<"{", "b", "v", "m", "}">>,
      <<"{", "a">>,
      <<>>,
      <<" ">>,
      <<"X">> }

RECURSIVE LineSeqs(_)
LineSeqs(n) ==
    IF n = 0 THEN {<<>>}
    ELSE LET shorter == LineSeqs(n - 1)
         IN  shorter \cup {Append(ls, l) : ls \in {x \in shorter : Len(x) = n - 1},
                                           l \in Lines}

\* the lines, each followed by a newline
RECURSIVE Terminated(_)
Terminated(ls) ==
    IF ls = <<>> THEN <<>> ELSE ls[1] \o <<"\n">> \o Terminated(Tail(ls))

\* files of at most MaxRecs lines, the last line with or without its newline
Files ==
    LET whole == {Terminated(ls) : ls \in LineSeqs(MaxRecs)}
    IN  whole \cup {SubSeq(f, 1, Len(f) - 1) : f \in whole \ {<<>>}}

\* ------------------------------------------------------------------- main
Ranks == 0 .. (size - 1)

Init ==
    /\ mmap \in Files
    /\ size \in 1 .. MaxW
    /\ max_buffer_size \in (1 .. MaxB) \cup {DefaultCap}
    /\ pc = [r \in Ranks |-> "setup"]
    /\ bounds = [r \in Ranks |-> [local_start |-> 0, local_end |-> 0]]
    /\ local = [r \in Ranks |-> ScanInit(0)]
    /\ all_hour_dicts = <<>>
    /\ all_user_dicts = <<>>
    /\ total_lines = 0
    /\ global_hour = EmptyMap
    /\ global_user = EmptyMap
    /\ chan = [r \in Ranks |-> <<>>]
    /\ from_rank = 0
    /\ received = <<>>
    /\ arg = <<>>
    /\ out = <<>>

\* main, line 627
Setup(r) ==
    /\ pc[r] = "setup"
    /\ bounds' = [bounds EXCEPT ![r] = setup_mpi_file_boundaries(Len(mmap), r, size)]
    /\ pc' = [pc EXCEPT ![r] = "scan"]
    /\ UNCHANGED <<mmap, size, max_buffer_size, local, all_hour_dicts,
                   all_user_dicts, total_lines, global_hour, global_user,
                   chan, from_rank, received, arg, out>>

\* main, lines 630-638: the scan, up to the barrier
Scan(r) ==
    /\ pc[r] = "scan"
    /\ local' = [local EXCEPT ![r] =
            process_chunk_memory_mapped(mmap, bounds[r].local_start,
                                        bounds[r].local_end, max_buffer_size)]
    /\ pc' = [pc EXCEPT ![r] = "barrier"]
    /\ UNCHANGED <<mmap, size, max_buffer_size, bounds, all_hour_dicts,
                   all_user_dicts, total_lines, global_hour, global_user,
                   chan, from_rank, received, arg, out>>

\* main, lines 638-679: past the barrier, rank 0 collects the tables and the
\* counts of ranks 1 .. size-1, in rank order, after its own
Gather ==
    /\ \A r \in Ranks : pc[r] = "barrier"
    /\ all_hour_dicts' = [i \in 1 .. size |-> local[i - 1].hour]
    /\ all_user_dicts' = [i \in 1 .. size |-> local[i - 1].user]
    /\ total_lines' = SumSeq([i \in 1 .. size |-> local[i - 1].lines_processed])
    /\ pc' = [r \in Ranks |-> IF r = 0 THEN "merge" ELSE "done"]
    /\ UNCHANGED <<mmap, size, max_buffer_size, bounds, local, global_hour,
                   global_user, chan, from_rank, received, arg, out>>

\* main, lines 684-689
Merge ==
    /\ pc[0] = "merge"
    /\ global_hour' = merge_hour_dicts(all_hour_dicts)
    /\ global_user' = merge_user_dicts(all_user_dicts)
    /\ pc' = [pc EXCEPT ![0] = "done"]
    /\ UNCHANGED <<mmap, size, max_buffer_size, bounds, local, all_hour_dicts,
                   all_user_dicts, total_lines, chan, from_rank, received,
                   arg, out>>

Next ==
    \/ \E r \in Ranks : Setup(r)
    \/ \E r \in Ranks : Scan(r)
    \/ Gather
    \/ Merge

Spec == Init /\ [][Next]_vars

\* ------------------------------------------------- records and hand-overs
\* the records of a file: the spans <<from, to>> of its maximal non-empty
\* runs of bytes that hold no newline
FileRecords(m) ==
    { <<from, to>> \in (0 .. Len(m)) \X (0 .. Len(m)) :
        /\ from < to
        /\ \A i \in (from + 1) .. to : m[i] # "\n"
        /\ from = 0 \/ m[from] = "\n"
        /\ to = Len(m) \/ m[to + 1] = "\n" }

\* a span of bytes that reaches the decoder when the scan cuts it out: it
\* is valid UTF-8 and not empty after trimming
Decodable(m, span) ==
    /\ span[1] < span[2]
    /\ ValidUtf8(Slice(m, span[1], span[2]))
    /\ Trim(Slice(m, span[1], span[2])) # <<>>

\* the hand-overs <<rank, index>> of exactly this span to the decoder
HandOvers(span) ==
    { <<r, i>> \in Ranks \X (1 .. Len(mmap) + 1) :
        /\ i <= Len(local[r].walked)
        /\ local[r].walked[i] = span }

AllScanned == \A r \in Ranks : pc[r] \notin {"setup", "scan"}

\* C1 (as claimed): once every shard scan has finished, each record of the
\* file that the decoder accepts as input has been handed to the decoder in
\* full by exactly one worker, exactly once.
C1_EveryRecordExactlyOnce ==
    AllScanned =>
        \A rec \in FileRecords(mmap) :
            Decodable(mmap, rec) => Cardinality(HandOvers(rec)) = 1

\* the tables a run with nranks workers has at its merge point
MergedRun(m, nranks, cap) ==
    LET scan(r) ==
            LET b == setup_mpi_file_boundaries(Len(m), r, nranks)
            IN  process_chunk_memory_mapped(m, b.local_start, b.local_end, cap)
    IN  [ hour |-> merge_hour_dicts([i \in 1 .. nranks |-> scan(i - 1).hour]),
          user |-> merge_user_dicts([i \in 1 .. nranks |-> scan(i - 1).user]) ]

SameSums(user1, user2) ==
    /\ DOMAIN user1 = DOMAIN user2
    /\ \A uid \in DOMAIN user1 : user1[uid].sent = user2[uid].sent

\* C2 (as claimed): the merged tables of this run have the same keys and
\* the same per-key sums as those of a run on the same file with any other
\* number of workers.
C2_PartitionInvariance ==
    pc[0] = "done" =>
        \A w2 \in (1 .. MaxW) \ {size} :
            LET other == MergedRun(mmap, w2, max_buffer_size)
            IN  /\ global_hour = other.hour
                /\ SameSums(global_user, other.user)

\* C5 (as claimed): the record count accumulated at the merge point equals
\* the count of one scan of the whole file as the single shard [0, F).
C5_TotalCountIsWholeFileCount ==
    pc[0] \in {"merge", "done"} =>
        total_lines =
            process_chunk_memory_mapped(mmap, 0, Len(mmap),
                                        max_buffer_size).lines_processed

\* the hand-overs of a span by the ranks of a set
HandOversBy(span, ranks) == {h \in HandOvers(span) : h[1] \in ranks}

\* C6 (as claimed): a record that begins before the byte_end of shard i and
\* whose separator lies after that byte_end is handed to the decoder in
\* full exactly once, by shard i or by shard i+1.
C6_StraddlingRecordExactlyOnce ==
    AllScanned =>
        \A i \in Ranks \ {size - 1} :
            \A rec \in FileRecords(mmap) :
                /\ Decodable(mmap, rec)
                /\ rec[1] < bounds[i].local_end
                /\ bounds[i].local_end < rec[2]
                /\ rec[2] < Len(mmap)
                => /\ Cardinality(HandOversBy(rec, {i, i + 1})) = 1
                   /\ Cardinality(HandOvers(rec)) = 1

\* the passes of rank r's inner loop whose span reached the decoder
Fed(r) ==
    {i \in 1 .. Len(local[r].walked) : Decodable(mmap, local[r].walked[i])}

\* those whose decode succeeded
Decoded(r) ==
    { i \in Fed(r) :
        from_json_str(Trim(Slice(mmap, local[r].walked[i][1],
                                 local[r].walked[i][2]))).ok }

\* C10 (as claimed): the count a shard scan returns is the number of lines
\* that were decoded successfully.
C10_CountIsDecodedRecords ==
    \A r \in Ranks :
        pc[r] \notin {"setup", "scan"} =>
            local[r].lines_processed = Cardinality(Decoded(r))

\* C10 (amended): the count a shard scan returns is the number of lines it
\* cut out that are valid UTF-8 and not empty after trimming, whether their
\* decode succeeds or fails; empty, blank and non-UTF-8 lines are not counted.
C10_CountIsNonBlankLines ==
    \A r \in Ranks :
        pc[r] \notin {"setup", "scan"} =>
            local[r].lines_processed = Cardinality(Fed(r))

\* a finished scan that met a malformed line and an empty, blank or
\* non-UTF-8 line
C10_Witness ==
    \E r \in Ranks :
        /\ pc[r] = "barrier"
        /\ Fed(r) \ Decoded(r) # {}
        /\ \E i \in 1 .. Len(local[r].walked) : i \notin Fed(r)

\* ------------------------------------------ the functions on their own
\* the state of main's variables while one function is exercised on its own
NoRun ==
    /\ mmap = <<>>
    /\ size = 1
    /\ max_buffer_size = DefaultCap
    /\ pc = [r \in 0 .. 0 |-> "done"]
    /\ bounds = [r \in 0 .. 0 |-> [local_start |-> 0, local_end |-> 0]]
    /\ local = [r \in 0 .. 0 |-> ScanInit(0)]
    /\ all_hour_dicts = <<>>
    /\ all_user_dicts = <<>>
    /\ total_lines = 0
    /\ global_hour = EmptyMap
    /\ global_user = EmptyMap
    /\ chan = [r \in 0 .. 0 |-> <<>>]
    /\ from_rank = 0
    /\ received = <<>>

RunVars == <<mmap, size, max_buffer_size, pc, bounds, local, all_hour_dicts,
             all_user_dicts, total_lines, global_hour, global_user,
             chan, from_rank, received>>

\* ---- the partitioner: the ranges of ranks 0, 1, ... of one file size
InitPart ==
    /\ NoRun
    /\ arg \in [file_size : 0 .. MaxF, size : 1 .. MaxRanks]
    /\ out = <<>>

\* the call of setup_mpi_file_boundaries by the next rank
AssignRange ==
    /\ Len(out) < arg.size
    /\ out' = Append(out, setup_mpi_file_boundaries(arg.file_size, Len(out), arg.size))
    /\ UNCHANGED <<arg, RunVars>>

NextPart == AssignRange

SpecPart == InitPart /\ [][NextPart]_vars

\* C4: the ranges of ranks 0 .. W-1 are ordered, non-negative in length,
\* contiguous, start at 0 and (once all W are computed) end at F, so they
\* are pairwise disjoint and their lengths sum to F; for F = 0 all are empty.
C4_PartitionCoverage ==
    /\ \A i \in 1 .. Len(out) :
          /\ 0 <= out[i].local_start
          /\ out[i].local_start <= out[i].local_end
          /\ out[i].local_end <= arg.file_size
          /\ i = 1 => out[i].local_start = 0
          /\ i > 1 => out[i].local_start = out[i - 1].local_end
          /\ arg.file_size = 0 => out[i].local_start = out[i].local_end
          /\ \A j \in 1 .. Len(out) :
                i < j => out[i].local_end <= out[j].local_start
    /\ Len(out) = arg.size =>
          /\ out[arg.size].local_end = arg.file_size
          /\ SumSeq([i \in 1 .. arg.size |->
                        out[i].local_end - out[i].local_start]) = arg.file_size

\* all ranges computed, for a size the worker count does not divide
C4_Witness ==
    /\ Len(out) = arg.size
    /\ arg.size >= 3
    /\ arg.file_size % arg.size # 0
    /\ arg.file_size > arg.size

\* ---- the reducer: one list of per-worker tables, merged
PartialMaps(keys, values) ==
    UNION {[ks -> values] : ks \in SUBSET keys}

HourTables == PartialMaps({"10", "11"}, {-1, 1, 2})

UserTables ==
    PartialMaps({"1", "2"}, [name : {"alice", "al"}, sent : {-1, 1}])

RECURSIVE ListsOf(_, _)
ListsOf(tables, n) ==
    IF n = 0 THEN {<<>>}
    ELSE LET shorter == ListsOf(tables, n - 1)
         IN  shorter \cup {Append(l, t) : l \in {x \in shorter : Len(x) = n - 1},
                                          t \in tables}

InitMerge ==
    /\ NoRun
    /\ arg \in [kind : {"hour"}, list : ListsOf(HourTables, MaxTables)]
              \cup [kind : {"user"}, list : ListsOf(UserTables, MaxTables)]
    /\ out = [done |-> FALSE]

MergeHour ==
    /\ ~out.done
    /\ arg.kind = "hour"
    /\ out' = [done |-> TRUE, merged |-> merge_hour_dicts(arg.list)]
    /\ UNCHANGED <<arg, RunVars>>

MergeUser ==
    /\ ~out.done
    /\ arg.kind = "user"
    /\ out' = [done |-> TRUE, merged |-> merge_user_dicts(arg.list)]
    /\ UNCHANGED <<arg, RunVars>>

NextMerge == MergeHour \/ MergeUser

SpecMerge == InitMerge /\ [][NextMerge]_vars

\* the union of the key sets of the tables of a list
KeysOf(list) == UNION {DOMAIN list[i] : i \in 1 .. Len(list)}

\* the sum of key k's values over the tables of a list; a table without
\* the key contributes 0
HourSumOf(list, k) ==
    SumSeq([i \in 1 .. Len(list) |->
                IF k \in DOMAIN list[i] THEN list[i][k] ELSE 0])

UserSumOf(list, k) ==
    SumSeq([i \in 1 .. Len(list) |->
                IF k \in DOMAIN list[i] THEN list[i][k].sent ELSE 0])

\* C7: the merged table's keys are the union of the input key sets and the
\* value of each key is the sum of that key's values over the input tables
\* that contain it.
C7_ReducerSums ==
    out.done =>
        /\ DOMAIN out.merged = KeysOf(arg.list)
        /\ \A k \in DOMAIN out.merged :
              IF arg.kind = "hour"
              THEN out.merged[k] = HourSumOf(arg.list, k)
              ELSE out.merged[k].sent = UserSumOf(arg.list, k)

\* a merge of two tables that share one key and differ in another
C7_Witness ==
    /\ out.done
    /\ Len(arg.list) = 2
    /\ DOMAIN arg.list[1] \cap DOMAIN arg.list[2] # {}
    /\ DOMAIN arg.list[1] \ DOMAIN arg.list[2] # {}

\* the permutations of 1 .. n
Perms(n) ==
    {f \in [1 .. n -> 1 .. n] : \A i, j \in 1 .. n : f[i] = f[j] => i = j}

Permuted(list, f) == [i \in 1 .. Len(list) |-> list[f[i]]]

MergeOf(kind, list) ==
    IF kind = "hour" THEN merge_hour_dicts(list) ELSE merge_user_dicts(list)

\* C8 (as claimed): merging any permutation of the list yields the same
\* merged table.
C8_MergeOrderIrrelevant ==
    out.done =>
        \A f \in Perms(Len(arg.list)) :
            MergeOf(arg.kind, Permuted(arg.list, f)) = out.merged

\* the first table of a list that holds key k
FirstWith(list, k) ==
    list[CHOOSE i \in 1 .. Len(list) :
            /\ k \in DOMAIN list[i]
            /\ \A j \in 1 .. (i - 1) : k \notin DOMAIN list[j]]

\* C8 (amended): merging any permutation of the list yields the same keys
\* and the same per-key sums; a merged BucketTable is the same table; the
\* label of a merged entity is the label in the first table of the list that
\* holds the entity, so it can change with the order of the list.
C8_MergeOrderKeepsSums ==
    out.done =>
        \A f \in Perms(Len(arg.list)) :
            LET other == MergeOf(arg.kind, Permuted(arg.list, f))
            IN  IF arg.kind = "hour" THEN other = out.merged
                ELSE /\ SameSums(other, out.merged)
                     /\ \A k \in DOMAIN other :
                           other[k].name =
                               FirstWith(Permuted(arg.list, f), k)[k].name

\* a merge of two entity tables that hold the same entity under two labels
C8_Witness ==
    /\ out.done
    /\ arg.kind = "user"
    /\ Len(arg.list) = 2
    /\ \E k \in DOMAIN arg.list[1] \cap DOMAIN arg.list[2] :
          arg.list[1][k].name # arg.list[2][k].name

\* ---- top-K: one table, one K, one direction
HourMaps == PartialMaps({"10", "11", "12"}, {-1, 0, 1})

UserMaps == PartialMaps({"1", "2", "3"}, [name : {"alice"}, sent : {-1, 0, 1}])

InitTopK ==
    /\ NoRun
    /\ arg \in [kind : {"hour"}, map : HourMaps, n : 0 .. MaxK, largest : BOOLEAN]
              \cup [kind : {"user"}, map : UserMaps, n : 0 .. MaxK, largest : BOOLEAN]
    /\ out = [done |-> FALSE]

TopHours ==
    /\ ~out.done
    /\ arg.kind = "hour"
    /\ \E res \in top_n_by_value(arg.map, arg.n, arg.largest) :
          out' = [done |-> TRUE, res |-> res]
    /\ UNCHANGED <<arg, RunVars>>

TopUsers ==
    /\ ~out.done
    /\ arg.kind = "user"
    /\ \E res \in top_n_users(arg.map, arg.n, arg.largest) :
          out' = [done |-> TRUE, res |-> res]
    /\ UNCHANGED <<arg, RunVars>>

NextTopK == TopHours \/ TopUsers

SpecTopK == InitTopK /\ [][NextTopK]_vars

\* the key and the value of the i-th entry of the result
ResKey(i) == out.res[i][1]

ResValue(i) == IF arg.kind = "hour" THEN out.res[i][2] ELSE out.res[i][2][2]

\* the value the table holds for a key
MapValue(k) == IF arg.kind = "hour" THEN arg.map[k] ELSE arg.map[k].sent

\* C3 (as claimed): the result holds min(K, |table|) entries of the table;
\* with largest = true they are the entries with the greatest values, by
\* value descending; with largest = false those with the least values, by
\* value ascending.
C3_TopKCorrect ==
    out.done =>
        LET idx == 1 .. Len(out.res)
            kept == {ResKey(i) : i \in idx}
        IN  /\ Len(out.res) = Min2(arg.n, Cardinality(DOMAIN arg.map))
            /\ \A i \in idx :
                  ResKey(i) \in DOMAIN arg.map /\ ResValue(i) = MapValue(ResKey(i))
            /\ \A i, j \in idx : i # j => ResKey(i) # ResKey(j)
            /\ \A i, j \in idx :
                  i < j => IF arg.largest THEN ResValue(i) >= ResValue(j)
                           ELSE ResValue(i) <= ResValue(j)
            /\ \A k \in DOMAIN arg.map \ kept : \A i \in idx :
                  IF arg.largest THEN MapValue(k) <= ResValue(i)
                  ELSE MapValue(k) >= ResValue(i)

\* ---- the aggregator: lines fed to processing_data one after another
\* Preprocessed lines: complete records, records that lack created_at, the
\* entity fields, the username, the metric, a record whose created_at is no
\* timestamp, and text that is not JSON.
AggLines ==
    { <<"{", "a", "u", "p", "}">>,
      <<"{", "c", "w", "P", "}">>,
      <<"{", "a", "v", "m", "}">>,
      <<"{", "u", "p", "}">>,
      <<"{", "b", "m", "}">>,
      <<"{", "a", "k", "p", "}">>,
      <<"{", "q", "u", "p", "}">>,
      <<"{", "a", "u", "}">>,
      <<"{", "a">> }

InitAgg ==
    /\ NoRun
    /\ arg = <<>>
    /\ out = [hour |-> EmptyMap, user |-> EmptyMap]

\* one call of processing_data on the worker's tables
Feed ==
    /\ Len(arg) < MaxFeed
    /\ \E line \in AggLines :
          /\ arg' = Append(arg, line)
          /\ out' = processing_data(line, out.hour, out.user)
    /\ UNCHANGED RunVars

NextAgg == Feed

SpecAgg == InitAgg /\ [][NextAgg]_vars

\* the fields of the i-th line fed
Rec(i) == from_json_str(arg[i])

HasBucketFields(i) ==
    /\ Rec(i).ok
    /\ Rec(i).created_at # None
    /\ IsRfc3339(Unwrap(Rec(i).created_at))
    /\ Rec(i).sentiment # None

HasEntityFields(i) ==
    /\ Rec(i).ok
    /\ Rec(i).user_id # None
    /\ Rec(i).username # None
    /\ Rec(i).sentiment # None

\* the sum of the metric over the lines fed that satisfy a condition
SumWhere(cond(_)) ==
    SumSeq([i \in 1 .. Len(arg) |->
                IF cond(i) THEN Unwrap(Rec(i).sentiment) ELSE 0])

BucketIs(h, keep(_)) ==
    LET hit(i) == HasBucketFields(i) /\ keep(i)
                  /\ HourKey(Unwrap(Rec(i).created_at)) = h
    IN  IF \E i \in 1 .. Len(arg) : hit(i)
        THEN h \in DOMAIN out.hour /\ out.hour[h] = SumWhere(hit)
        ELSE h \notin DOMAIN out.hour

EntityIs(uid, keep(_)) ==
    LET hit(i) == HasEntityFields(i) /\ keep(i) /\ Unwrap(Rec(i).user_id) = uid
    IN  IF \E i \in 1 .. Len(arg) : hit(i)
        THEN uid \in DOMAIN out.user /\ out.user[uid].sent = SumWhere(hit)
        ELSE uid \notin DOMAIN out.user

Always(i) == TRUE

HasCreatedAt(i) == Rec(i).created_at # None

\* C9 (as claimed): a record is excluded only from the table whose fields it
\* lacks: the BucketTable holds the metric of every record with a time
\* bucket and a metric, the EntityTable that of every record with entity
\* key, label and metric.
C9_PerTableExclusion ==
    /\ \A h \in {"10", "11"} : BucketIs(h, Always)
    /\ \A uid \in {"1", "2"} : EntityIs(uid, Always)

\* C9 (amended): a record without created_at or without metric is excluded
\* from both tables.  A record with created_at and metric is excluded only
\* from the table it cannot populate: without entity key or label it still
\* adds its metric to the BucketTable, and with a created_at that is no
\* timestamp it still adds its metric to the EntityTable.
C9_ExclusionNeedsCreatedAt ==
    /\ \A h \in {"10", "11"} : BucketIs(h, Always)
    /\ \A uid \in {"1", "2"} : EntityIs(uid, HasCreatedAt)

\* a record without entity fields, one whose created_at is no timestamp and
\* one without created_at have been fed
C9_Witness ==
    /\ \E i \in 1 .. Len(arg) : HasBucketFields(i) /\ ~HasEntityFields(i)
    /\ \E i \in 1 .. Len(arg) :
          HasEntityFields(i) /\ HasCreatedAt(i) /\ ~HasBucketFields(i)
    /\ \E i \in 1 .. Len(arg) : HasEntityFields(i) /\ ~HasCreatedAt(i)


\* ---- record-level recovery (the scans of Spec)
\* a span the scan cut out whose text decodes
GoodLine(m, span) ==
    /\ Decodable(m, span)
    /\ from_json_str(Trim(Slice(m, span[1], span[2]))).ok

\* the tables built from the lines of a walk that decode, the others left out
RECURSIVE TablesOfGood(_, _, _)
TablesOfGood(m, spans, tables) ==
    IF spans = <<>> THEN tables
    ELSE TablesOfGood(m, Tail(spans),
            IF GoodLine(m, spans[1])
            THEN processing_data(Trim(Slice(m, spans[1][1], spans[1][2])),
                                 tables.hour, tables.user)
            ELSE tables)

\* rank r's scan walked (its start skip found a position)
Walks(r) == StartSkip(mmap, bounds[r].local_start) # None

\* C11: a line that is empty after trimming, is not UTF-8 or fails to decode
\* changes neither table (the tables of a finished scan are those built from
\* its decodable lines alone), and the scan does not stop at it: the walk
\* goes on at the byte after each line and ends only at or past byte_end or
\* the end of the file.
C11_RecordLevelRecovery ==
    \A r \in Ranks :
        pc[r] \notin {"setup", "scan"} =>
            LET good == TablesOfGood(mmap, local[r].walked,
                                     [hour |-> EmptyMap, user |-> EmptyMap])
            IN  /\ local[r].hour = good.hour
                /\ local[r].user = good.user
                /\ \A i \in 1 .. (Len(local[r].walked) - 1) :
                      local[r].walked[i + 1][1] = local[r].walked[i][2] + 1
                /\ Walks(r) =>
                      local[r].current_pos >=
                          Min2(bounds[r].local_end, Len(mmap))

\* a scan that met a line that is not UTF-8, then a malformed line, then a
\* record that it aggregated
C11_Witness ==
    \E r \in Ranks :
        /\ pc[r] = "barrier"
        /\ \E i, j, k \in 1 .. Len(local[r].walked) :
              /\ i < k /\ j < k
              /\ ~ValidUtf8(Slice(mmap, local[r].walked[i][1], local[r].walked[i][2]))
              /\ Decodable(mmap, local[r].walked[j])
              /\ ~GoodLine(mmap, local[r].walked[j])
              /\ GoodLine(mmap, local[r].walked[k])
        /\ DOMAIN local[r].hour # {}


\* ---- top-K: the size of the result (SpecTopK)
\* the entry the table holds for a key, in the form of a result entry
MapEntry(k) ==
    IF arg.kind = "hour" THEN <<k, arg.map[k]>>
    ELSE <<k, <<arg.map[k].name, arg.map[k].sent>>>>

\* C12: the result holds exactly min(K, |table|) entries, each a distinct
\* key of the table paired with what the table holds for it; so K = 0 or an
\* empty table gives an empty result and K >= |table| gives every entry.
C12_TopKSize ==
    out.done =>
        LET idx == 1 .. Len(out.res)
        IN  /\ Len(out.res) = Min2(arg.n, Cardinality(DOMAIN arg.map))
            /\ \A i \in idx :
                  ResKey(i) \in DOMAIN arg.map /\ out.res[i] = MapEntry(ResKey(i))
            /\ \A i, j \in idx : i # j => ResKey(i) # ResKey(j)
            /\ (arg.n = 0 \/ DOMAIN arg.map = {}) => out.res = <<>>
            /\ arg.n >= Cardinality(DOMAIN arg.map) =>
                  {ResKey(i) : i \in idx} = DOMAIN arg.map

\* a result cut to K entries of a larger table
C12_Witness ==
    /\ out.done
    /\ arg.n > 0
    /\ arg.n < Cardinality(DOMAIN arg.map)
    /\ Len(out.res) = arg.n


\* ---- shard and segment boundaries (the scans of Spec)
\* the spans rank r's walk cut out, as a set
WalkedBy(r) == {local[r].walked[i] : i \in 1 .. Len(local[r].walked)}

\* C13 (as claimed): every record is handed to the decoder by the worker
\* whose raw range holds the record's first byte, and no worker hands over a
\* line that begins before its own byte_start.
C13_OwnershipByStart ==
    AllScanned =>
        /\ \A rec \in FileRecords(mmap) :
              Decodable(mmap, rec) =>
                  \E r \in Ranks :
                      /\ bounds[r].local_start <= rec[1]
                      /\ rec[1] < bounds[r].local_end
                      /\ rec \in WalkedBy(r)
        /\ \A r \in Ranks : \A span \in WalkedBy(r) :
              Decodable(mmap, span) => span[1] >= bounds[r].local_start

\* shard i is not the last, the byte at its byte_end is a separator, and rec
\* is the record that separator ends, begun at or after shard i's effective
\* start
SeparatorAtEnd(i, rec) ==
    /\ i \in Ranks \ {size - 1}
    /\ bounds[i].local_end < Len(mmap)
    /\ mmap[bounds[i].local_end + 1] = "\n"
    /\ rec \in FileRecords(mmap)
    /\ rec[2] = bounds[i].local_end
    /\ Walks(i)
    /\ rec[1] >= Unwrap(StartSkip(mmap, bounds[i].local_start))

\* C14: when the byte at byte_end of a non-last shard i is a separator and
\* the record it ends begins at or after shard i's effective start, shard i
\* cuts out that record in full, once; shard i+1's start skip ends on the
\* byte after the separator, so shard i+1 does not cut out that record and
\* its walk begins at byte_end + 1.
C14_SeparatorAtByteEnd ==
    AllScanned =>
        \A i \in Ranks : \A rec \in FileRecords(mmap) :
            SeparatorAtEnd(i, rec) =>
                /\ Cardinality(HandOversBy(rec, {i})) = 1
                /\ rec \notin WalkedBy(i + 1)
                /\ StartSkip(mmap, bounds[i + 1].local_start)
                      = Some(bounds[i].local_end + 1)
                /\ local[i + 1].walked # <<>> =>
                      local[i + 1].walked[1][1] = bounds[i].local_end + 1

\* such a shard, with a record the decoder accepts, followed by a shard that
\* walks
C14_Witness ==
    /\ AllScanned
    /\ \E i \in Ranks : \E rec \in FileRecords(mmap) :
          /\ SeparatorAtEnd(i, rec)
          /\ GoodLine(mmap, rec)
          /\ local[i + 1].walked # <<>>

\* C15 (as claimed): every line handed to the decoder is one complete
\* record of the file.
C15_OnlyCompleteRecords ==
    \A r \in Ranks :
        pc[r] \notin {"setup", "scan"} =>
            \A span \in WalkedBy(r) :
                Decodable(mmap, span) => span \in FileRecords(mmap)

\* a non-empty span that lies inside a record
Inside(span, rec) ==
    /\ span[1] < span[2]
    /\ rec[1] <= span[1]
    /\ span[2] <= rec[2]

\* C16 (as claimed): within one shard scan no record has one part cut out
\* in one segment and another part in a later segment.
C16_NoRecordSplitInShard ==
    \A r \in Ranks :
        pc[r] \notin {"setup", "scan"} =>
            \A rec \in FileRecords(mmap) :
                \A i, j \in 1 .. Len(local[r].walked) :
                    i < j => ~(/\ Inside(local[r].walked[i], rec)
                               /\ Inside(local[r].walked[j], rec))


\* ------------------------------------- main, one transport operation a step
\* the files of the stepwise runs: records and a blank line, so that the
\* workers' tables and counts differ
MainFiles ==
    { Terminated(<< <<"{", "a", "u", "p", "}">>, <<"{", "b", "v", "m", "}">>,
                    <<"{", "a", "u", "p", "}">> >>),
      Terminated(<< <<"{", "b", "v", "m", "}">>, <<" ">>,
                    <<"{", "a", "u", "p", "}">>, <<"{", "a", "u", "p", "}">> >>) }

InitMain ==
    /\ mmap \in MainFiles
    /\ size \in 1 .. MaxProcs
    /\ max_buffer_size \in {1, DefaultCap}
    /\ pc = [r \in Ranks |-> "setup"]
    /\ bounds = [r \in Ranks |-> [local_start |-> 0, local_end |-> 0]]
    /\ local = [r \in Ranks |-> ScanInit(0)]
    /\ all_hour_dicts = <<>>
    /\ all_user_dicts = <<>>
    /\ total_lines = 0
    /\ global_hour = EmptyMap
    /\ global_user = EmptyMap
    /\ chan = [r \in Ranks |-> <<>>]
    /\ from_rank = 0
    /\ received = <<>>
    /\ arg = <<>>
    /\ out = <<>>

\* what a step of the transfer leaves alone
Data == <<mmap, size, max_buffer_size, bounds, local, global_hour,
          global_user, arg, out>>

\* a barrier that lets a worker through as soon as it arrives
AllArrived_NoWait == TRUE

\* world.barrier(), line 638: every worker has entered the barrier
AllArrived == \A q \in Ranks : pc[q] \notin {"setup", "scan"}

\* line 638: worker r leaves the barrier
Barrier(r) ==
    /\ pc[r] = "barrier"
    /\ AllArrived
    /\ pc' = [pc EXCEPT ![r] = "hour"]
    /\ UNCHANGED <<Data, all_hour_dicts, all_user_dicts, total_lines, chan,
                   from_rank, received>>

\* lines 653, 666, 678: what worker r sends in the transfer of that kind
Message(r, kind) ==
    [kind |-> kind,
     payload |-> CASE kind = "hour" -> local[r].hour
                   [] kind = "user" -> local[r].user
                   [] OTHER -> local[r].lines_processed]

\* the position of a sender after the send of that kind has returned
AfterSend(kind) ==
    CASE kind = "hour" -> "user"
      [] kind = "user" -> "lines"
      [] OTHER -> "done"

\* the position of a sender inside a send that has not returned
InSend(kind) ==
    CASE kind = "hour" -> "hour_sent"
      [] kind = "user" -> "user_sent"
      [] OTHER -> "lines_sent"

\* the kind a blocked sender is sending
SendOf(position) ==
    CASE position = "hour_sent" -> "hour"
      [] position = "user_sent" -> "user"
      [] OTHER -> "lines"

\* lines 653, 666, 678: a worker other than rank 0 sends; the standard-mode
\* send returns at once (the message is buffered) or blocks until the
\* message is received
Send(r) ==
    /\ r # 0
    /\ pc[r] \in {"hour", "user", "lines"}
    /\ chan' = [chan EXCEPT ![r] = Append(@, Message(r, pc[r]))]
    /\ \E blocks \in BOOLEAN :
          pc' = [pc EXCEPT ![r] = IF blocks THEN InSend(@) ELSE AfterSend(@)]
    /\ UNCHANGED <<Data, all_hour_dicts, all_user_dicts, total_lines,
                   from_rank, received>>

\* the blocked send of worker r returns: its message has been received
SendReturns(r) ==
    /\ r # 0
    /\ pc[r] \in {"hour_sent", "user_sent", "lines_sent"}
    /\ chan[r] = <<>>
    /\ pc' = [pc EXCEPT ![r] = AfterSend(SendOf(@))]
    /\ UNCHANGED <<Data, all_hour_dicts, all_user_dicts, total_lines, chan,
                   from_rank, received>>

\* for i in 1..size (lines 647, 660, 672): Early ends the loop one round
\* before, Inclusive one round after
LoopDone_Early(i) == i >= size - 1

LoopDone_Inclusive(i) == i = size + 1

\* for i in 1..size (lines 647, 660, 672) has run out
LoopDone(i) == i = size

\* a message of rank i is there to be received
HasMessage(i) == i \in DOMAIN chan /\ chan[i] # <<>>

\* what receive() at lines 649, 662, 674 does to the channel and the loop
Take(slot) ==
    /\ ~LoopDone(from_rank)
    /\ HasMessage(from_rank)
    /\ chan' = [chan EXCEPT ![from_rank] = Tail(@)]
    /\ received' = Append(received,
                          <<slot, Head(chan[from_rank]).kind, from_rank>>)
    /\ from_rank' = from_rank + 1

\* lines 644-646: rank 0 starts the list with its own BucketTable
PushHour ==
    /\ pc[0] = "hour"
    /\ all_hour_dicts' = <<local[0].hour>>
    /\ from_rank' = 1
    /\ pc' = [pc EXCEPT ![0] = "recv_hour"]
    /\ UNCHANGED <<Data, all_user_dicts, total_lines, chan, received>>

\* lines 647-651: one round of the loop
RecvHour ==
    /\ pc[0] = "recv_hour"
    /\ Take("hour")
    /\ all_hour_dicts' = Append(all_hour_dicts, Head(chan[from_rank]).payload)
    /\ UNCHANGED <<Data, pc, all_user_dicts, total_lines>>

\* lines 657-659: the loop of the BucketTables is over, rank 0 starts the
\* list of EntityTables with its own
PushUser ==
    /\ pc[0] = "recv_hour"
    /\ LoopDone(from_rank)
    /\ all_user_dicts' = <<local[0].user>>
    /\ from_rank' = 1
    /\ pc' = [pc EXCEPT ![0] = "recv_user"]
    /\ UNCHANGED <<Data, all_hour_dicts, total_lines, chan, received>>

\* lines 660-664: one round of the loop
RecvUser ==
    /\ pc[0] = "recv_user"
    /\ Take("user")
    /\ all_user_dicts' = Append(all_user_dicts, Head(chan[from_rank]).payload)
    /\ UNCHANGED <<Data, pc, all_hour_dicts, total_lines>>

\* lines 670-671: the loop of the EntityTables is over, rank 0 starts the
\* count with its own
StartLines ==
    /\ pc[0] = "recv_user"
    /\ LoopDone(from_rank)
    /\ total_lines' = local[0].lines_processed
    /\ from_rank' = 1
    /\ pc' = [pc EXCEPT ![0] = "recv_lines"]
    /\ UNCHANGED <<Data, all_hour_dicts, all_user_dicts, chan, received>>

\* lines 672-676: one round of the loop
RecvLines ==
    /\ pc[0] = "recv_lines"
    /\ Take("lines")
    /\ total_lines' = total_lines + Head(chan[from_rank]).payload
    /\ UNCHANGED <<Data, pc, all_hour_dicts, all_user_dicts>>

\* lines 676-684: the loop of the counts is over
EndGather ==
    /\ pc[0] = "recv_lines"
    /\ LoopDone(from_rank)
    /\ pc' = [pc EXCEPT ![0] = "merge"]
    /\ UNCHANGED <<Data, all_hour_dicts, all_user_dicts, total_lines, chan,
                   from_rank, received>>

\* the steps of worker r after its scan
Transfer(r) ==
    \/ Barrier(r)
    \/ Send(r)
    \/ SendReturns(r)

\* the steps only rank 0 takes
MergePoint ==
    \/ PushHour
    \/ RecvHour
    \/ PushUser
    \/ RecvUser
    \/ StartLines
    \/ RecvLines
    \/ EndGather
    \/ Merge

NextMain ==
    \/ \E r \in Ranks : Setup(r)
    \/ \E r \in Ranks : Scan(r)
    \/ \E r \in Ranks : Barrier(r)
    \/ \E r \in Ranks : Send(r)
    \/ \E r \in Ranks : SendReturns(r)
    \/ PushHour
    \/ RecvHour
    \/ PushUser
    \/ RecvUser
    \/ StartLines
    \/ RecvLines
    \/ EndGather
    \/ Merge

SpecMain == InitMain /\ [][NextMain]_vars

\* every worker is a process of its own: once its scan has returned it runs
\* whenever it can (nothing is assumed about the scans)
SpecMainFair ==
    /\ SpecMain
    /\ \A r \in 0 .. (MaxProcs - 1) : WF_vars(r \in Ranks /\ Transfer(r))
    /\ WF_vars(MergePoint)


\* worker r has left the barrier: it is in the transfer, the merge or beyond
PastBarrier(r) == pc[r] \notin {"setup", "scan", "barrier"}

\* C17: whenever some worker has left the barrier, or a message has been
\* sent or received, or rank 0 has started a list, every worker has finished
\* its shard scan; so while one worker has not finished scanning no worker
\* is in the transfer, the merge or beyond.
C17_BarrierOrdering ==
    (\/ \E r \in Ranks : PastBarrier(r)
     \/ \E r \in Ranks : chan[r] # <<>>
     \/ received # <<>>
     \/ all_hour_dicts # <<>>)
        => \A q \in Ranks : pc[q] \notin {"setup", "scan"}

\* one worker is in the transfer while another has not left the barrier yet
C17_Witness ==
    /\ size >= 2
    /\ \E r, q \in Ranks :
          /\ pc[r] \in {"user", "hour_sent", "recv_hour"}
          /\ pc[q] = "barrier"

\* the entries of the receive log for one slot
LogOf(slot) == SelectSeq(received, LAMBDA entry : entry[1] = slot)

\* C18: when rank 0 is at the merge it holds size BucketTables and size
\* EntityTables, the i-th of each the table worker i-1 had when its scan
\* finished, its count is the sum of all workers' counts, every receive took
\* a message of the kind of its slot, and each slot received exactly once
\* from each of the ranks 1 .. size-1, in rank order; no message is left.
C18_CompleteGather ==
    pc[0] = "merge" =>
        /\ \A i \in 1 .. Len(received) : received[i][1] = received[i][2]
        /\ \A slot \in {"hour", "user", "lines"} :
              LogOf(slot) = [i \in 1 .. (size - 1) |-> <<slot, slot, i>>]
        /\ Len(all_hour_dicts) = size
        /\ Len(all_user_dicts) = size
        /\ \A r \in Ranks :
              /\ all_hour_dicts[r + 1] = local[r].hour
              /\ all_user_dicts[r + 1] = local[r].user
        /\ total_lines = SumSeq([i \in 1 .. size |-> local[i - 1].lines_processed])
        /\ \A r \in Ranks : chan[r] = <<>>

\* rank 0 at the merge with the tables of three workers, not all the same
C18_Witness ==
    /\ pc[0] = "merge"
    /\ size = MaxProcs
    /\ \E r \in Ranks : local[r].hour # local[0].hour
    /\ total_lines > local[0].lines_processed

AllDone == \A r \in Ranks : pc[r] = "done"

\* C19: once every worker's scan has returned, every worker eventually
\* reaches Done, whether its sends return at once or block until they are
\* received.
C19_ProgressToDone == AllScanned ~> AllDone

\* a sender is blocked in its first send while rank 0 still waits for the
\* worker before it
C19_Witness ==
    /\ size = MaxProcs
    /\ pc[0] = "recv_hour"
    /\ from_rank = 1
    /\ pc[2] = "hour_sent"
    /\ pc[1] = "hour"


\* ---- entity upserts (the feeds of SpecAgg)
\* the lines fed for which lines 174-179 ran with that key
Upserts(uid) ==
    {i \in 1 .. Len(arg) : /\ HasEntityFields(i)
                            /\ HasCreatedAt(i)
                            /\ Unwrap(Rec(i).user_id) = uid}

\* the entry of the EntityTable for a key that has had upserts holds the
\* label of the given upsert and the sum of the values of all of them
EntryIs(uid, i) ==
    LET hit(j) == j \in Upserts(uid)
    IN  /\ uid \in DOMAIN out.user
        /\ out.user[uid].name = Unwrap(Rec(i).username)
        /\ out.user[uid].sent = SumWhere(hit)

\* C20 (as claimed): after any sequence of upserts for one key the stored
\* label is the label of the most recent upsert and the stored sum is the
\* sum of all values supplied for the key.
C20_LabelIsLatest ==
    \A uid \in {"1", "2"} :
        Upserts(uid) # {} =>
            EntryIs(uid, CHOOSE i \in Upserts(uid) : \A j \in Upserts(uid) : j <= i)

\* C20 (amended): after any sequence of upserts for one key the stored
\* label is the label of the first upsert (the one that created the entry)
\* and the stored sum is the sum of all values supplied for the key.
C20_LabelIsFirst ==
    \A uid \in {"1", "2"} :
        Upserts(uid) # {} =>
            EntryIs(uid, CHOOSE i \in Upserts(uid) : \A j \in Upserts(uid) : i <= j)

\* two upserts for one key with different labels
C20_Witness ==
    \E uid \in {"1", "2"} : \E i, j \in Upserts(uid) :
        /\ i < j
        /\ Rec(i).username # Rec(j).username


\* ---- the segment cap (the scans of Spec)
\* the caps of the model
Caps == (1 .. MaxB) \cup {DefaultCap}

\* what the scan of rank r's shard returns under the cap B
ScanWith(r, B) ==
    process_chunk_memory_mapped(mmap, bounds[r].local_start,
                                bounds[r].local_end, B)

\* C21 (as claimed): for a fixed file and a fixed shard the BucketTable, the
\* EntityTable and the record count returned by the scan are the same for
\* any two caps B1, B2 >= 1.
C21_CapIndependence ==
    \A r \in Ranks :
        pc[r] \notin {"setup", "scan"} =>
            \A B \in Caps :
                /\ ScanWith(r, B).hour = local[r].hour
                /\ ScanWith(r, B).user = local[r].user
                /\ ScanWith(r, B).lines_processed = local[r].lines_processed


\* --------------------------- the scan, one pass of the outer loop a step
\* the caps the command line accepts: --buffer-size takes any usize, 0
\* included (lines 615-619)
AcceptedCaps == (0 .. MaxB) \cup {DefaultCap}

\* files of at most MaxScanRecs lines, the last line with or without its
\* newline
ScanFiles ==
    LET whole == {Terminated(ls) : ls \in LineSeqs(MaxScanRecs)}
    IN  whole \cup {SubSeq(f, 1, Len(f) - 1) : f \in whole \ {<<>>}}

InitScan ==
    /\ mmap \in ScanFiles
    /\ size \in 1 .. MaxW
    /\ max_buffer_size \in AcceptedCaps
    /\ pc = [r \in Ranks |-> "setup"]
    /\ bounds = [r \in Ranks |-> [local_start |-> 0, local_end |-> 0]]
    /\ local = [r \in Ranks |-> ScanInit(0)]
    /\ all_hour_dicts = <<>>
    /\ all_user_dicts = <<>>
    /\ total_lines = 0
    /\ global_hour = EmptyMap
    /\ global_user = EmptyMap
    /\ chan = [r \in Ranks |-> <<>>]
    /\ from_rank = 0
    /\ received = <<>>
    /\ arg = <<>>
    /\ out = <<>>

\* what a step of the scan leaves alone
NotScan == <<mmap, size, max_buffer_size, bounds, all_hour_dicts,
             all_user_dicts, total_lines, global_hour, global_user, chan,
             from_rank, received, arg, out>>

\* lines 410-425: the start skip; the scan returns at once when no newline
\* is ahead
EnterScan(r) ==
    /\ pc[r] = "scan"
    /\ LET position == StartSkip(mmap, bounds[r].local_start)
       IN  IF position = None
           THEN /\ local' = [local EXCEPT ![r] = ScanInit(bounds[r].local_start)]
                /\ pc' = [pc EXCEPT ![r] = "barrier"]
           ELSE /\ local' = [local EXCEPT ![r] = ScanInit(Unwrap(position))]
                /\ pc' = [pc EXCEPT ![r] = "segments"]
    /\ UNCHANGED NotScan

\* line 427: the condition of the outer loop
MoreSegments(r) ==
    /\ local[r].current_pos < bounds[r].local_end
    /\ local[r].current_pos < Len(mmap)

\* lines 427-472: one pass of the outer loop; a pass that moves nothing
\* leaves the state as it is, and the loop takes it again
SegmentPass(r) ==
    /\ pc[r] = "segments"
    /\ MoreSegments(r)
    /\ local' = [local EXCEPT ![r] =
            SegmentLines(mmap, local[r],
                AdjustedSegmentEnd(mmap, local[r].current_pos,
                                   bounds[r].local_end, max_buffer_size))]
    /\ UNCHANGED <<pc, NotScan>>

\* lines 427, 474: the outer loop is over, the scan returns
ExitScan(r) ==
    /\ pc[r] = "segments"
    /\ ~MoreSegments(r)
    /\ pc' = [pc EXCEPT ![r] = "barrier"]
    /\ UNCHANGED <<local, NotScan>>

\* the steps of worker r up to the barrier
ScanStep(r) ==
    \/ Setup(r)
    \/ EnterScan(r)
    \/ SegmentPass(r)
    \/ ExitScan(r)

NextScan ==
    \/ \E r \in Ranks : Setup(r)
    \/ \E r \in Ranks : EnterScan(r)
    \/ \E r \in Ranks : SegmentPass(r)
    \/ \E r \in Ranks : ExitScan(r)

SpecScan == InitScan /\ [][NextScan]_vars

\* every worker is a process of its own that runs whenever it can
SpecScanFair ==
    /\ SpecScan
    /\ \A r \in 0 .. (MaxW - 1) : WF_vars(r \in Ranks /\ ScanStep(r))

\* C22 (as claimed): for every file, every shard and every cap the command
\* line accepts, 0 included, the shard scan terminates: every worker
\* eventually returns from its scan.
C22_ScanTerminates == <>(\A r \in Ranks : pc[r] = "barrier")

====
